---- MODULE Spec2Model ----
(***************************************************************************)
(* Model of transformer_from_scratch.ipynb: PositionalEncodingLayer,       *)
(* MultiHeadedAttention, the mask constructors, Encoder and Decoder.       *)
(*                                                                         *)
(* Tensors are held by what the claims observe of them: token sequences    *)
(* and masks element by element, learned activations by their shape.       *)
(* One element of the batch is followed (the elements of a batch never     *)
(* interact in a forward pass); the batch size is kept in the shapes.      *)
(* Positions and dimensions are 0-indexed as in the source.                *)
(***************************************************************************)
EXTENDS Integers, Sequences, FiniteSets, TLC

\* ---------------------------------------------------------------- bounds
MaxLen == 3
MaxDModel == 3
MaxHeads == 2
MaxVocab == 3
MaxBatch == 2
MaxExamples == 4
MaxBatchSize == 3
MaxEpisodes == 2

\* ------------------------------------------------------------- constants
\* fixed-point resolution of the float values held element by element
Milli == 1000
\* pi and 2*pi in Milli units
PiMilli == 3142
TwoPiMilli == 6283
\* number of Taylor terms summed by cos and sin (pi^18/18! < 1/Milli)
TaylorTerms == 18
\* the pad index tested by create_padding_mask
PadIndex == 0
\* the magnitude of the mask penalty mask*-1e9
MaskPenalty == 1000000000
\* exp(x) is 0 in float32 for x <= -104 (smallest denormal is e^-103.28)
UnderflowExp == 104
\* the smallest vocabulary: the pad token and one real token
MinVocab == PadIndex + 2
\* d_model = 20, the notebook's dimensionality of the word embedding
DModel == 20

\* ------------------------------------------------------------ the state
VARIABLES
  \* notebook globals
  n_heads, d_model, pt_vocab_size, en_vocab_size,
  \* PositionalEncodingLayer
  pe_d_model, pe_pc, pe_inputs, omega, angles, pos_mask, pe_out,
  \* mask construction
  mk_pc, mk_seq, mk_sq, padding_mask, lookahead_mask, mask,
  \* MultiHeadedAttention blocks
  mha,
  \* Encoder, Decoder and the forward pass of the model
  pc, port, output_prev, batch, enc, dec,
  \* the training loop
  train

globalVars == <<n_heads, d_model, pt_vocab_size, en_vocab_size>>
peVars == <<pe_d_model, pe_pc, pe_inputs, omega, angles, pos_mask, pe_out>>
maskVars == <<mk_pc, mk_seq, mk_sq, padding_mask, lookahead_mask, mask>>
pipeVars == <<pc, port, output_prev, batch, enc, dec>>
vars == <<n_heads, d_model, pt_vocab_size, en_vocab_size,
          pe_d_model, pe_pc, pe_inputs, omega, angles, pos_mask, pe_out,
          mk_pc, mk_seq, mk_sq, padding_mask, lookahead_mask, mask,
          mha, pc, port, output_prev, batch, enc, dec, train>>

\* ------------------------------------------------------ tensor helpers
\* a vector of length n / a matrix of r rows and c columns, 0-indexed
Vec(n, S) == [0..(n - 1) -> S]
Mat(r, c, S) == [0..(r - 1) -> [0..(c - 1) -> S]]
Rows(m) == Cardinality(DOMAIN m)
Cols(m) == IF Rows(m) = 0 THEN 0 ELSE Cardinality(DOMAIN m[0])

\* ================================================= PositionalEncodingLayer
\* tf.range(start = 0, limit = n)
tf_range(n) == [j \in 0..(n - 1) |-> j]

\* x^m / m! in Milli units, for x in Milli units with |x| <= PiMilli
RECURSIVE TaylorTerm(_, _)
TaylorTerm(x, m) ==
  IF m = 0 THEN Milli ELSE (TaylorTerm(x, m - 1) * x) \div (Milli * m)

\* the argument brought into [-pi, pi)
ReduceAngle(x) == ((x + PiMilli) % TwoPiMilli) - PiMilli

RECURSIVE TaylorSum(_, _, _)
TaylorSum(x, m, parity) ==
  IF m >= TaylorTerms THEN 0
  ELSE (IF m % 2 = parity
          THEN (IF (m \div 2) % 2 = 0 THEN 1 ELSE -1) * TaylorTerm(x, m)
          ELSE 0)
       + TaylorSum(x, m + 1, parity)

\* cos and sin, in Milli units, of every angle pos_encoding_mask can meet:
\* the angles are products of integers, so whole numbers of radians
cos_milli == [a \in 0..(MaxLen * MaxDModel) |-> TaylorSum(ReduceAngle(a * Milli), 0, 0)]
sin_milli == [a \in 0..(MaxLen * MaxDModel) |-> TaylorSum(ReduceAngle(a * Milli), 0, 1)]

\* tf.math.cos / tf.math.sin
tf_cos(a) == cos_milli[a]
tf_sin(a) == sin_milli[a]

\* omega = 1 / np.power(10000, (2 * (i_arr//2)) / d_model), held exactly as
\* the number m * 10000^(-en/ed)
omega_of(i_arr, dm) ==
  [i \in DOMAIN i_arr |-> [m |-> 1, en |-> 2 * (i_arr[i] \div 2), ed |-> dm]]

\* a mutation of matmul_pos_i: the sum in place of the product
matmul_pos_i_sum(pos_arr, i_arr) ==
  [p \in DOMAIN pos_arr |-> [i \in DOMAIN i_arr |-> pos_arr[p] + i_arr[i]]]

\* angles = np.matmul(pos_arr, i_arr): column vector times row vector
matmul_pos_i(pos_arr, i_arr) ==
  [p \in DOMAIN pos_arr |-> [i \in DOMAIN i_arr |-> pos_arr[p] * i_arr[i]]]

\* pos_mask[:,0::2] = cos(angles)[:,0::2]; pos_mask[:,1::2] = sin(angles)[:,1::2]
trig_mask(ang) ==
  [p \in DOMAIN ang |->
    [i \in DOMAIN ang[p] |->
      IF i % 2 = 0 THEN tf_cos(ang[p][i]) ELSE tf_sin(ang[p][i])]]

\* tf.math.add(inputs, pos_mask)
tf_add(a, b) == [p \in DOMAIN a |-> [i \in DOMAIN a[p] |-> a[p][i] + b[p][i]]]

\* the values an embedding entry takes in the model, in Milli units
EmbVals == {0, Milli}

\* the layer is called on an embedding of shape (length, d_model)
PECall ==
  /\ pe_pc = "idle"
  /\ \E L \in 1..MaxLen :
       \E x \in Mat(L, pe_d_model, EmbVals) : pe_inputs' = x
  /\ pe_pc' = "mask"
  /\ omega' = << >>
  /\ angles' = << >>
  /\ pos_mask' = << >>
  /\ pe_out' = << >>
  /\ UNCHANGED pe_d_model
  /\ UNCHANGED <<train, globalVars, maskVars, mha, pipeVars>>

\* pos_encoding_mask(inputs)
PEMask ==
  /\ pe_pc = "mask"
  /\ LET pos_arr == tf_range(Rows(pe_inputs))
         i_arr == tf_range(pe_d_model)
         ang == matmul_pos_i(pos_arr, i_arr)
     IN /\ omega' = omega_of(i_arr, pe_d_model)
        /\ angles' = ang
        /\ pos_mask' = trig_mask(ang)
  /\ pe_pc' = "add"
  /\ UNCHANGED <<pe_d_model, pe_inputs, pe_out>>
  /\ UNCHANGED <<train, globalVars, maskVars, mha, pipeVars>>

\* return tf.math.add(inputs, pos_mask)
PEAdd ==
  /\ pe_pc = "add"
  /\ pe_out' = tf_add(pe_inputs, pos_mask)
  /\ pe_pc' = "done"
  /\ UNCHANGED <<pe_d_model, pe_inputs, omega, angles, pos_mask>>
  /\ UNCHANGED <<train, globalVars, maskVars, mha, pipeVars>>

\* the caller has the result; the locals of the call are gone
PEReturn ==
  /\ pe_pc = "done"
  /\ pe_pc' = "idle"
  /\ pe_inputs' = << >>
  /\ omega' = << >>
  /\ angles' = << >>
  /\ pos_mask' = << >>
  /\ pe_out' = << >>
  /\ UNCHANGED pe_d_model
  /\ UNCHANGED <<train, globalVars, maskVars, mha, pipeVars>>

\* ======================================================= mask construction
\* outerprod(input_x): values[:, newaxis, :] transposed times itself, so
\* entry (q,k) is input_x[q] * input_x[k]
outerprod(input_x) ==
  [q \in DOMAIN input_x |-> [k \in DOMAIN input_x |-> input_x[q] * input_x[k]]]

\* create_padding_mask(seq): tf.cast(tf.math.equal(seq, 0), tf.float32)
create_padding_mask(seq) ==
  [q \in DOMAIN seq |->
    [k \in DOMAIN seq[q] |-> IF seq[q][k] = PadIndex THEN 1 ELSE 0]]

\* tf.ones_like(input_x)
ones_like(input_x) ==
  [q \in DOMAIN input_x |-> [k \in DOMAIN input_x[q] |-> 1]]

\* a mutation of band_part: the upper band is one diagonal too narrow
band_part_narrow(input, num_lower, num_upper) ==
  [m \in DOMAIN input |->
    [n \in DOMAIN input[m] |->
      IF /\ (num_lower < 0 \/ m - n <= num_lower)
         /\ (num_upper < 0 \/ n - m < num_upper)
        THEN input[m][n] ELSE 0]]

\* tf.linalg.band_part(input, num_lower, num_upper): entry (m,n) is kept when
\* (num_lower < 0 or m-n <= num_lower) and (num_upper < 0 or n-m <= num_upper)
band_part(input, num_lower, num_upper) ==
  [m \in DOMAIN input |->
    [n \in DOMAIN input[m] |->
      IF /\ (num_lower < 0 \/ m - n <= num_lower)
         /\ (num_upper < 0 \/ n - m <= num_upper)
        THEN input[m][n] ELSE 0]]

\* create_lookahead_mask(input_x): 1 - band_part(ones_like(input_x), -1, 0)
create_lookahead_mask(input_x) ==
  LET band == band_part(ones_like(input_x), -1, 0)
  IN [q \in DOMAIN input_x |-> [k \in DOMAIN input_x[q] |-> 1 - band[q][k]]]

\* tf.math.maximum(a, b)
tf_maximum(a, b) ==
  [q \in DOMAIN a |->
    [k \in DOMAIN a[q] |-> IF a[q][k] >= b[q][k] THEN a[q][k] ELSE b[q][k]]]

\* the token sequences of length 1..MaxLen over a vocabulary of v tokens
TokenSeqs(v) == UNION {Vec(L, 0..(v - 1)) : L \in 1..MaxLen}

MkOuterprod ==
  /\ mk_pc = "start"
  /\ mk_sq' = outerprod(mk_seq)
  /\ mk_pc' = "squared"
  /\ UNCHANGED <<mk_seq, padding_mask, lookahead_mask, mask>>
  /\ UNCHANGED <<train, globalVars, peVars, mha, pipeVars>>

MkPadding ==
  /\ mk_pc = "squared"
  /\ padding_mask' = create_padding_mask(mk_sq)
  /\ mk_pc' = "padded"
  /\ UNCHANGED <<mk_seq, mk_sq, lookahead_mask, mask>>
  /\ UNCHANGED <<train, globalVars, peVars, mha, pipeVars>>

MkLookahead ==
  /\ mk_pc = "padded"
  /\ lookahead_mask' = create_lookahead_mask(mk_sq)
  /\ mk_pc' = "lookahead"
  /\ UNCHANGED <<mk_seq, mk_sq, padding_mask, mask>>
  /\ UNCHANGED <<train, globalVars, peVars, mha, pipeVars>>

MkMaximum ==
  /\ mk_pc = "lookahead"
  /\ mask' = tf_maximum(padding_mask, lookahead_mask)
  /\ mk_pc' = "done"
  /\ UNCHANGED <<mk_seq, mk_sq, padding_mask, lookahead_mask>>
  /\ UNCHANGED <<train, globalVars, peVars, mha, pipeVars>>

\* =================================================== MultiHeadedAttention
\* the attention blocks: one built on its own, the Encoder's and the
\* Decoder's two
Standalone == "attn"
EncBlock == "multiheadedattention"
DecBlock1 == "multiheadedattention_1"
DecBlock2 == "multiheadedattention_2"
Blocks == {Standalone, EncBlock, DecBlock1, DecBlock2}

kernel_types == {"query", "key", "value"}

\* the outputs of a learned projection over L positions, one feature per
\* position (relu output: 0, or one unit at the first n positions)
Activations(L) == {[p \in 0..(L - 1) |-> IF p < n THEN 1 ELSE 0] : n \in 0..L}

\* MultiHeadedAttention.__init__(n_heads, d_model)
mha_init(h, dm) ==
  [n_heads |-> h, d_model |-> dm, built |-> FALSE,
   kernels |-> << >>, status |-> "idle",
   query_inp |-> << >>, key_inp |-> << >>, value_inp |-> << >>,
   has_mask |-> FALSE, padding_mask |-> << >>,
   head_ind |-> 0, all_values |-> << >>, softmax_scores |-> << >>,
   d_k |-> << >>, applied |-> << >>, operands |-> << >>,
   penalties |-> << >>, output |-> << >>]

\* the head indices build creates kernels for: range(n_heads), n_heads being
\* the notebook's global and not self.n_heads
build_heads(blk, ambient) == 0..(ambient - 1)

\* MultiHeadedAttention.build: one Dense per head and kernel type
mha_build(blk, ambient) ==
  [blk EXCEPT !.built = TRUE,
              !.kernels = [head \in build_heads(blk, ambient) |-> kernel_types]]

\* Layer.__call__: build on the first call, then call unpacks its inputs
mha_enter(blk, ambient, q, k, v, masked, m) ==
  [(IF blk.built THEN blk ELSE mha_build(blk, ambient))
     EXCEPT !.status = "running",
            !.query_inp = q, !.key_inp = k, !.value_inp = v,
            !.has_mask = masked, !.padding_mask = m,
            !.head_ind = 0, !.all_values = << >>, !.softmax_scores = << >>,
            !.d_k = << >>, !.applied = << >>, !.operands = << >>,
            !.penalties = << >>,
            !.output = << >>]

\* shapes (batch, length, width)
dense_shape(shape, units) == <<shape[1], shape[2], units>>
matmul_shape(a, b) == <<a[1], a[2], b[3]>>
RECURSIVE sum_widths(_)
sum_widths(shapes) ==
  IF shapes = << >> THEN 0 ELSE Head(shapes)[3] + sum_widths(Tail(shapes))
\* tf.concat(all_values, axis = 2)
concat_shape(shapes) == <<shapes[1][1], shapes[1][2], sum_widths(shapes)>>
\* tf.math.add of two tensors of equal shape
add_shape(a, b) == a

\* floor of the square root of n, known to lie in lo..hi
RECURSIVE isqrt_between(_, _, _)
isqrt_between(n, lo, hi) ==
  IF lo >= hi THEN lo
  ELSE LET mid == (lo + hi + 1) \div 2
       IN IF mid * mid <= n THEN isqrt_between(n, mid, hi)
          ELSE isqrt_between(n, lo, mid - 1)

\* scores = tf.matmul(queries, transpose(keys)): one feature per position
\* is kept, so entry (q,k) is queries[q] * keys[k]
matmul_scores(queries, keys) ==
  [q \in DOMAIN queries |-> [k \in DOMAIN keys |-> queries[q] * keys[k]]]

\* a mutation of last_axis: the size of the query axis of the scores
last_axis_rows(scores) == Rows(scores)

\* d_k = tf.shape(scores)[-1]: the size of the last axis of the scores
last_axis(scores) == Cols(scores)

\* 1/np.sqrt(d_k) in Milli units, for every d_k a scores tensor can have
inv_sqrt == [dk \in 1..MaxLen |-> isqrt_between((Milli * Milli) \div dk, 0, Milli)]

\* scaled_scores = (1/np.sqrt(d_k))*scores, in Milli units
scale_scores(scores, dk) ==
  [q \in DOMAIN scores |-> [k \in DOMAIN scores[q] |-> inv_sqrt[dk] * scores[q][k]]]

\* the penalty added to entry (q,k): padding_mask*-1e9, or nothing
penalty(blk, q, k) ==
  IF blk.has_mask THEN blk.padding_mask[q][k] * (0 - MaskPenalty) ELSE 0

\* what scaled_scores += (padding_mask*-1e9) adds to the scores, which have
\* been scaled by then, entry by entry
added_penalty(blk, scaled) ==
  [q \in DOMAIN scaled |-> [k \in DOMAIN scaled[q] |-> penalty(blk, q, k)]]

\* softmax(scaled_scores + penalty, axis = 2), each weight held as 1 when it
\* is positive and 0 when it is zero: exp(x_k - max_j x_j) underflows to 0
\* in float32 exactly when x_k - x_j <= -UnderflowExp for some j
softmax_weights(blk, scaled) ==
  [q \in DOMAIN scaled |->
    [k \in DOMAIN scaled[q] |->
      IF \E j \in DOMAIN scaled[q] :
           ((scaled[q][k] - scaled[q][j]) \div Milli)
             + (penalty(blk, q, k) - penalty(blk, q, j)) <= 0 - UnderflowExp
        THEN 0 ELSE 1]]

\* a mutation of head_value_operand: the head's value projection applied to
\* the value source
head_value_projected(blk, head) == <<"kernels", head, "value", "value_inp">>

\* the right operand of values = tf.matmul(softmax_scores,
\* tf.transpose(value_inp, perm = [0,1,2])): value_inp itself, the identity
\* permutation leaving it as it was passed in
head_value_operand(blk, head) == <<"value_inp">>

\* one iteration of the loop over range(self.n_heads)
MhaHead(b) ==
  LET blk == mha[b] IN
  /\ blk.status = "running"
  /\ blk.head_ind < blk.n_heads
  /\ blk.head_ind \in DOMAIN blk.kernels
  /\ \E queries \in Activations(blk.query_inp[2]) :
       \E keys \in Activations(blk.key_inp[2]) :
         LET scores == matmul_scores(queries, keys)
             dk == last_axis(scores)
             scaled == scale_scores(scores, dk)
             weights == softmax_weights(blk, scaled)
             values == matmul_shape(<<blk.query_inp[1], Rows(weights), Cols(weights)>>,
                                    blk.value_inp)
         IN mha' = [mha EXCEPT ![b] =
              [blk EXCEPT !.head_ind = blk.head_ind + 1,
                          !.all_values = Append(blk.all_values, values),
                          !.softmax_scores = Append(blk.softmax_scores, weights),
                          !.d_k = Append(blk.d_k, dk),
                          !.penalties = Append(blk.penalties,
                                          added_penalty(blk, scaled)),
                          !.applied = Append(blk.applied, {"query", "key"}),
                          !.operands = Append(blk.operands,
                                         head_value_operand(blk, blk.head_ind))]]
  /\ UNCHANGED <<train, globalVars, peVars, maskVars, pipeVars>>

\* self.kernels[head_ind] for a head build made no kernels for
MhaKeyError(b) ==
  LET blk == mha[b] IN
  /\ blk.status = "running"
  /\ blk.head_ind < blk.n_heads
  /\ blk.head_ind \notin DOMAIN blk.kernels
  /\ mha' = [mha EXCEPT ![b] = [blk EXCEPT !.status = "KeyError"]]
  /\ UNCHANGED <<train, globalVars, peVars, maskVars, pipeVars>>

\* after the loop: concat, normalization, dense, dropout, residual
mha_output(blk) ==
  LET all_values == concat_shape(blk.all_values)
      normalized_values == all_values
      linear_layer_values == dense_shape(normalized_values, blk.d_model)
      residual_connection == add_shape(blk.query_inp, linear_layer_values)
      linear_layer_out == dense_shape(residual_connection, blk.d_model)
  IN linear_layer_out

MhaCombine(b) ==
  LET blk == mha[b] IN
  /\ blk.status = "running"
  /\ blk.head_ind = blk.n_heads
  /\ mha' = [mha EXCEPT ![b] =
       [blk EXCEPT !.status = "returned", !.output = mha_output(blk)]]
  /\ UNCHANGED <<train, globalVars, peVars, maskVars, pipeVars>>

\* the masks the notebook passes for a sequence: the padding mask of
\* Encoder.call and the combined mask of Decoder.call
MasksOf(seq) ==
  LET sq == outerprod(seq)
  IN {create_padding_mask(sq),
      tf_maximum(create_padding_mask(sq), create_lookahead_mask(sq))}

\* a block built on its own is called the two ways the notebook calls one:
\* on [x]*3 with a mask (self-attention), or on three tensors without one
AttnInvoke ==
  /\ mha[Standalone].status \in {"idle", "returned", "KeyError"}
  /\ \E B \in 1..MaxBatch, Lq \in 1..MaxLen, Lkv \in 1..MaxLen :
       LET dm == mha[Standalone].d_model
           q == <<B, Lq, dm>>
           kv == <<B, Lkv, dm>>
       IN \/ mha' = [mha EXCEPT ![Standalone] =
                 mha_enter(@, n_heads, q, kv, kv, FALSE, << >>)]
          \/ /\ Lq = Lkv
             /\ \E seq \in Vec(Lq, 0..(MinVocab - 1)) :
                  \E m \in MasksOf(seq) :
                    mha' = [mha EXCEPT ![Standalone] =
                      mha_enter(@, n_heads, q, q, q, TRUE, m)]
  /\ UNCHANGED <<train, globalVars, peVars, maskVars, pipeVars>>

IdleBlocks == [b \in Blocks |-> mha_init(1, 1)]

\* ====================================================== Encoder / Decoder
\* Encoder.__init__ and Encoder.build: the table of embedding_layer has
\* input_dim = pt_vocab_size rows
encoder_build(embedding_dim, heads, pt, en) ==
  [embedding_dim |-> embedding_dim, n_heads |-> heads,
   table_rows |-> pt,
   padding_mask |-> << >>, embedding |-> << >>,
   positional_embedding |-> << >>, attention |-> << >>]

\* the input_dim Decoder.build gives its embedding_layer: pt_vocab_size
decoder_table_rows(pt, en) == pt

\* Decoder.compute_output_shape(input_shape):
\* (input_shape[0][0], en_vocab_size)
decoder_compute_output_shape(input_shape, en) == <<input_shape[1][1], en>>

\* Decoder.__init__ and Decoder.build
decoder_build(embedding_dim, heads, pt, en) ==
  [embedding_dim |-> embedding_dim, n_heads |-> heads,
   table_rows |-> decoder_table_rows(pt, en),
   softmax_units |-> en,
   inputs |-> << >>,
   padding_mask |-> << >>, lookahead_mask |-> << >>, mask |-> << >>,
   lookup |-> "none",
   output_prev_embedded |-> << >>, attention_1 |-> << >>,
   attention_2 |-> << >>, probs |-> << >>, declared |-> << >>]

\* embedding_layer(tokens): a row of the table per token; a token outside
\* the table raises on CPU and reads as zeros on GPU
EmbeddingOutcomes(tokens, rows) ==
  IF \A p \in DOMAIN tokens : tokens[p] < rows
    THEN {"ok"} ELSE {"InvalidArgumentError", "zeros"}

\* PositionalEncodingLayer.call keeps the shape of its input
positional_shape(shape) == shape

\* the blocks as the Encoder and the Decoder construct them in build
PipelineBlocks(heads, dm) ==
  [b \in Blocks |-> IF b = Standalone THEN mha_init(1, 1) ELSE mha_init(heads, dm)]

\* ========================================================= training loop
\* the loop before it is run; the learned parameters are held as the number
\* of the value they have (0: as initialised)
IdleTrain ==
  [n_examples |-> 0, batch_size |-> 1, n_episodes |-> 0,
   pc |-> "idle", ep |-> 0, batch_ind |-> 0, consumed |-> 0,
   port |-> << >>, eng |-> << >>, prev_transformer_output |-> << >>,
   encoder_output |-> << >>, token_probs |-> << >>,
   loss |-> "none", grads |-> "none",
   params |-> 0, forwards |-> 0, gradients |-> 0, updates |-> 0,
   error |-> "none"]

\* _dataset.batch(_batch_size): the size of the batch that follows the
\* examples consumed, the last one holding what is left
batch_rows(n_examples, consumed, bs) ==
  IF n_examples - consumed < bs THEN n_examples - consumed ELSE bs

\* tf.zeros((batch_size, tf.shape(eng)[1].numpy()))
zeros_history(bs, eng) == <<bs, eng[2]>>

\* the batch size of tf.matmul(a, b) and of tf.math.add(a, b) on batches of
\* a and b rows: equal sizes, or one of them 1 and broadcast; 0 stands for
\* InvalidArgumentError
broadcast_batch(a, b) ==
  IF a = b THEN a ELSE IF a = 1 THEN b ELSE IF b = 1 THEN a ELSE 0

\* Encoder.call on a batch of token sequences of shape (batch, length)
encoder_shape(inp, dm) == <<inp[1], inp[2], dm>>

\* Decoder.call on [encoder_output, encoder_output, output_prev]: the shape
\* of probs, or << >> when a matmul of the cross-attention raises
decoder_shape(encoder_output, prev, dm, en) ==
  LET attention_1 == <<prev[1], prev[2], dm>>
      scores == broadcast_batch(attention_1[1], encoder_output[1])
      values == IF scores = 0 THEN 0 ELSE broadcast_batch(scores, encoder_output[1])
      attention_2 == IF values = 0 THEN 0 ELSE broadcast_batch(attention_1[1], values)
  IN IF attention_2 = 0 THEN << >> ELSE <<attention_2, prev[2], en>>

\* a mutation of apply_gradients: the parameters keep their value
apply_gradients_skip(params, grads) == params

\* optimizer.apply_gradients(zip(grads, model.trainable_variables)): the
\* parameters take their next value
apply_gradients(params, grads) == params + 1

\* for batch_ind, (port, eng) in enumerate(train_dataset_batched): the next
\* batch, padded to the longest sentence of each side, and the history
TrainNextBatch ==
  /\ train.pc = "next_batch"
  /\ train.consumed < train.n_examples
  /\ \E Lsrc \in 1..MaxLen, Ltgt \in 1..MaxLen :
       LET B == batch_rows(train.n_examples, train.consumed, train.batch_size)
           eng == <<B, Ltgt>>
       IN train' = [train EXCEPT
            !.port = <<B, Lsrc>>,
            !.eng = eng,
            !.prev_transformer_output = zeros_history(train.batch_size, eng),
            !.encoder_output = << >>, !.token_probs = << >>,
            !.loss = "none", !.grads = "none",
            !.pc = "encoder"]
  /\ UNCHANGED <<globalVars, peVars, maskVars, mha, pipeVars>>

\* model([port, prev_transformer_output]): the Encoder
TrainEncoder ==
  /\ train.pc = "encoder"
  /\ train' = [train EXCEPT
       !.encoder_output = encoder_shape(train.port, d_model),
       !.pc = "decoder"]
  /\ UNCHANGED <<globalVars, peVars, maskVars, mha, pipeVars>>

\* model([port, prev_transformer_output]): the Decoder, and the return of
\* token_probs
TrainDecoder ==
  /\ train.pc = "decoder"
  /\ LET probs == decoder_shape(train.encoder_output, train.prev_transformer_output,
                                d_model, en_vocab_size)
     IN IF probs = << >>
          THEN train' = [train EXCEPT !.pc = "aborted",
                                      !.error = "InvalidArgumentError"]
          ELSE train' = [train EXCEPT !.token_probs = probs,
                                      !.forwards = train.forwards + 1,
                                      !.pc = "loss"]
  /\ UNCHANGED <<globalVars, peVars, maskVars, mha, pipeVars>>

\* eng_one_hot = tf.one_hot(eng, depth = en_vocab_size) and
\* loss = cce(eng_one_hot, token_probs): on tensors of different shapes the
\* loss raises, or broadcasts them, depending on the version of Keras
TrainLoss ==
  /\ train.pc = "loss"
  /\ LET eng_one_hot == <<train.eng[1], train.eng[2], en_vocab_size>>
     IN \E outcome \in (IF eng_one_hot = train.token_probs
                          THEN {"ok"} ELSE {"ValueError", "ok"}) :
          IF outcome = "ok"
            THEN train' = [train EXCEPT !.loss = "computed", !.pc = "gradient"]
            ELSE train' = [train EXCEPT !.pc = "aborted", !.error = "ValueError"]
  /\ UNCHANGED <<globalVars, peVars, maskVars, mha, pipeVars>>

\* grads = tape.gradient(loss, model.trainable_variables)
TrainGradient ==
  /\ train.pc = "gradient"
  /\ train' = [train EXCEPT !.grads = "computed",
                            !.gradients = train.gradients + 1,
                            !.pc = "apply"]
  /\ UNCHANGED <<globalVars, peVars, maskVars, mha, pipeVars>>

\* optimizer.apply_gradients(...), and the end of the loop body
TrainApply ==
  /\ train.pc = "apply"
  /\ train' = [train EXCEPT
       !.params = apply_gradients(train.params, train.grads),
       !.updates = train.updates + 1,
       !.batch_ind = train.batch_ind + 1,
       !.consumed = train.consumed + train.port[1],
       !.pc = "next_batch"]
  /\ UNCHANGED <<globalVars, peVars, maskVars, mha, pipeVars>>

\* the dataset is exhausted: the translations of the last batch are printed
\* and the next episode starts, or the loop over the episodes ends
TrainEndOfEpisode ==
  /\ train.pc = "next_batch"
  /\ train.consumed = train.n_examples
  /\ train' = [train EXCEPT
       !.ep = train.ep + 1,
       !.batch_ind = 0,
       !.consumed = 0,
       !.pc = IF train.ep + 1 < train.n_episodes THEN "next_batch" ELSE "finished"]
  /\ UNCHANGED <<globalVars, peVars, maskVars, mha, pipeVars>>

\* the cells up to "Build Model": the tokenizer fixes the vocabulary sizes,
\* d_model and n_heads are set (the head count is bounded here), and
\* Encoder(d_model, n_heads) and Decoder(d_model, n_heads) are constructed
\* and built
Init ==
  /\ n_heads \in 1..MaxHeads
  /\ d_model = DModel
  /\ pt_vocab_size \in MinVocab..MaxVocab
  /\ en_vocab_size \in MinVocab..MaxVocab
  /\ pe_d_model = 1
  /\ pe_pc = "idle"
  /\ pe_inputs = << >>
  /\ omega = << >>
  /\ angles = << >>
  /\ pos_mask = << >>
  /\ pe_out = << >>
  /\ mk_pc = "start"
  /\ mk_seq = << >>
  /\ mk_sq = << >>
  /\ padding_mask = << >>
  /\ lookahead_mask = << >>
  /\ mask = << >>
  /\ mha = PipelineBlocks(n_heads, d_model)
  /\ pc = "idle"
  /\ port = << >>
  /\ output_prev = << >>
  /\ batch = 1
  /\ enc = encoder_build(d_model, n_heads, pt_vocab_size, en_vocab_size)
  /\ dec = decoder_build(d_model, n_heads, pt_vocab_size, en_vocab_size)
  /\ train = IdleTrain

\* model([port, output_prev]) on a batch of source sequences and target
\* histories
ModelCall ==
  /\ pc = "idle"
  /\ batch' \in 1..MaxBatch
  /\ port' \in TokenSeqs(pt_vocab_size)
  /\ output_prev' \in TokenSeqs(en_vocab_size)
  /\ pc' = "encoder"
  /\ UNCHANGED <<enc, dec, mha>>
  /\ UNCHANGED <<train, globalVars, peVars, maskVars>>

\* Encoder.call up to the call of its attention block
EncoderCall ==
  /\ pc = "encoder"
  /\ LET pm == create_padding_mask(outerprod(port))
         embedding == <<batch, Rows(port), enc.embedding_dim>>
         positional_embedding == positional_shape(embedding)
     IN /\ enc' = [enc EXCEPT !.padding_mask = pm,
                              !.embedding = embedding,
                              !.positional_embedding = positional_embedding]
        /\ mha' = [mha EXCEPT ![EncBlock] =
             mha_enter(@, n_heads, positional_embedding, positional_embedding,
                       positional_embedding, TRUE, pm)]
  /\ pc' = "encoder_attention"
  /\ UNCHANGED <<port, output_prev, batch, dec>>
  /\ UNCHANGED <<train, globalVars, peVars, maskVars>>

\* return attention
EncoderReturn ==
  /\ pc = "encoder_attention"
  /\ mha[EncBlock].status = "returned"
  /\ enc' = [enc EXCEPT !.attention = mha[EncBlock].output]
  /\ pc' = "decoder"
  /\ UNCHANGED <<port, output_prev, batch, dec, mha>>
  /\ UNCHANGED <<train, globalVars, peVars, maskVars>>

\* Decoder.call on inputs = [queries_encoder, keys_encoder, output_prev] up
\* to the call of multiheadedattention_1: the masks of the history prev, its
\* embedding and positional encoding
decoder_call(d, inputs, prev, outcome, en) ==
  LET sq == outerprod(prev)
      pm == create_padding_mask(sq)
      lm == create_lookahead_mask(sq)
      m == tf_maximum(pm, lm)
      embedded == positional_shape(<<inputs[3][1], inputs[3][2], d.embedding_dim>>)
  IN [d EXCEPT
       !.inputs = inputs,
       !.padding_mask = pm, !.lookahead_mask = lm, !.mask = m,
       !.lookup = outcome,
       !.declared = decoder_compute_output_shape(inputs, en),
       !.output_prev_embedded =
          IF outcome = "InvalidArgumentError" THEN << >> ELSE embedded]

\* the Decoder of the model: its inputs are
\* [encoder_output, encoder_output, input_prev_output]
DecoderCall ==
  /\ pc = "decoder"
  /\ \E outcome \in EmbeddingOutcomes(output_prev, dec.table_rows) :
       LET inputs == <<enc.attention, enc.attention, <<batch, Rows(output_prev)>> >>
           d == decoder_call(dec, inputs, output_prev, outcome, en_vocab_size)
       IN /\ dec' = d
          /\ IF outcome = "InvalidArgumentError"
               THEN /\ pc' = "error"
                    /\ UNCHANGED mha
               ELSE /\ pc' = "decoder_attention_1"
                    /\ mha' = [mha EXCEPT ![DecBlock1] =
                         mha_enter(@, n_heads, d.output_prev_embedded,
                                   d.output_prev_embedded, d.output_prev_embedded,
                                   TRUE, d.mask)]
  /\ UNCHANGED <<port, output_prev, batch, enc>>
  /\ UNCHANGED <<train, globalVars, peVars, maskVars>>

\* the Decoder called on its own, on two tensors of one batch size and one
\* length and a target history
DecoderInvoke ==
  /\ pc = "idle"
  /\ \E B \in 1..MaxBatch, L \in 1..MaxLen, wq \in 1..MaxDModel, wk \in 1..MaxDModel :
       \E prev \in TokenSeqs(en_vocab_size) :
         \E outcome \in EmbeddingOutcomes(prev, dec.table_rows) :
           LET inputs == << <<B, L, wq>>, <<B, L, wk>>, <<B, Rows(prev)>> >>
               d == decoder_call(dec, inputs, prev, outcome, en_vocab_size)
           IN /\ batch' = B
              /\ output_prev' = prev
              /\ dec' = d
              /\ IF outcome = "InvalidArgumentError"
                   THEN /\ pc' = "error"
                        /\ UNCHANGED mha
                   ELSE /\ pc' = "decoder_attention_1"
                        /\ mha' = [mha EXCEPT ![DecBlock1] =
                             mha_enter(@, n_heads, d.output_prev_embedded,
                                       d.output_prev_embedded, d.output_prev_embedded,
                                       TRUE, d.mask)]
  /\ UNCHANGED <<port, enc>>
  /\ UNCHANGED <<train, globalVars, peVars, maskVars>>

\* a mutation of cross_inputs: the two encoder arguments exchanged
cross_inputs_swapped(attention_1, queries_encoder, keys_encoder) ==
  <<attention_1, keys_encoder, queries_encoder>>

\* the list [attention_1, queries_encoder, keys_encoder] that
\* multiheadedattention_2 unpacks as query_inp, key_inp, value_inp
cross_inputs(attention_1, queries_encoder, keys_encoder) ==
  <<attention_1, queries_encoder, keys_encoder>>

\* queries_encoder, keys_encoder, output_prev = inputs, and
\* attention_2 = multiheadedattention_2([attention_1, queries_encoder,
\* keys_encoder]): no mask
DecoderCross ==
  /\ pc = "decoder_attention_1"
  /\ mha[DecBlock1].status = "returned"
  /\ LET attention_1 == mha[DecBlock1].output
         queries_encoder == dec.inputs[1]
         keys_encoder == dec.inputs[2]
         qkv == cross_inputs(attention_1, queries_encoder, keys_encoder)
     IN /\ dec' = [dec EXCEPT !.attention_1 = attention_1]
        /\ mha' = [mha EXCEPT ![DecBlock2] =
             mha_enter(@, n_heads, qkv[1], qkv[2], qkv[3], FALSE, << >>)]
  /\ pc' = "decoder_attention_2"
  /\ UNCHANGED <<port, output_prev, batch, enc>>
  /\ UNCHANGED <<train, globalVars, peVars, maskVars>>

\* probs = softmax_layer(attention_2); return probs
DecoderReturn ==
  /\ pc = "decoder_attention_2"
  /\ mha[DecBlock2].status = "returned"
  /\ dec' = [dec EXCEPT !.attention_2 = mha[DecBlock2].output,
                        !.probs = dense_shape(mha[DecBlock2].output, dec.softmax_units)]
  /\ pc' = "done"
  /\ UNCHANGED <<port, output_prev, batch, enc, mha>>
  /\ UNCHANGED <<train, globalVars, peVars, maskVars>>

\* the positional encoder on its own, constructed with a d_model
InitPos ==
  /\ n_heads = 1
  /\ d_model = 1
  /\ pt_vocab_size = MinVocab
  /\ en_vocab_size = MinVocab
  /\ pe_d_model \in 1..MaxDModel
  /\ pe_pc = "idle"
  /\ pe_inputs = << >>
  /\ omega = << >>
  /\ angles = << >>
  /\ pos_mask = << >>
  /\ pe_out = << >>
  /\ mk_pc = "start"
  /\ mk_seq = << >>
  /\ mk_sq = << >>
  /\ padding_mask = << >>
  /\ lookahead_mask = << >>
  /\ mask = << >>
  /\ mha = IdleBlocks
  /\ pc = "idle"
  /\ port = << >>
  /\ output_prev = << >>
  /\ batch = 1
  /\ enc = << >>
  /\ dec = << >>
  /\ train = IdleTrain

\* the mask constructors on their own, given a token sequence
InitMask ==
  /\ n_heads = 1
  /\ d_model = 1
  /\ pt_vocab_size = MinVocab
  /\ en_vocab_size = MinVocab
  /\ pe_d_model = 1
  /\ pe_pc = "idle"
  /\ pe_inputs = << >>
  /\ omega = << >>
  /\ angles = << >>
  /\ pos_mask = << >>
  /\ pe_out = << >>
  /\ mk_pc = "start"
  /\ mk_seq \in TokenSeqs(MaxVocab)
  /\ mk_sq = << >>
  /\ padding_mask = << >>
  /\ lookahead_mask = << >>
  /\ mask = << >>
  /\ mha = IdleBlocks
  /\ pc = "idle"
  /\ port = << >>
  /\ output_prev = << >>
  /\ batch = 1
  /\ enc = << >>
  /\ dec = << >>
  /\ train = IdleTrain

\* one attention block on its own: MultiHeadedAttention(h, dm) constructed
\* while the notebook's global n_heads has some value
InitAttn ==
  /\ n_heads \in 1..MaxHeads
  /\ d_model = 1
  /\ pt_vocab_size = MinVocab
  /\ en_vocab_size = MinVocab
  /\ pe_d_model = 1
  /\ pe_pc = "idle"
  /\ pe_inputs = << >>
  /\ omega = << >>
  /\ angles = << >>
  /\ pos_mask = << >>
  /\ pe_out = << >>
  /\ mk_pc = "start"
  /\ mk_seq = << >>
  /\ mk_sq = << >>
  /\ padding_mask = << >>
  /\ lookahead_mask = << >>
  /\ mask = << >>
  /\ mha \in {[IdleBlocks EXCEPT ![Standalone] = mha_init(h, dm)] :
                h \in 1..MaxHeads, dm \in 1..MaxDModel}
  /\ pc = "idle"
  /\ port = << >>
  /\ output_prev = << >>
  /\ batch = 1
  /\ enc = << >>
  /\ dec = << >>
  /\ train = IdleTrain

\* the Decoder on its own, constructed and built as the notebook does it
InitDec ==
  /\ n_heads \in 1..MaxHeads
  /\ d_model = DModel
  /\ pt_vocab_size \in MinVocab..MaxVocab
  /\ en_vocab_size \in MinVocab..MaxVocab
  /\ pe_d_model = 1
  /\ pe_pc = "idle"
  /\ pe_inputs = << >>
  /\ omega = << >>
  /\ angles = << >>
  /\ pos_mask = << >>
  /\ pe_out = << >>
  /\ mk_pc = "start"
  /\ mk_seq = << >>
  /\ mk_sq = << >>
  /\ padding_mask = << >>
  /\ lookahead_mask = << >>
  /\ mask = << >>
  /\ mha = PipelineBlocks(n_heads, d_model)
  /\ pc = "idle"
  /\ port = << >>
  /\ output_prev = << >>
  /\ batch = 1
  /\ enc = << >>
  /\ dec = decoder_build(d_model, n_heads, pt_vocab_size, en_vocab_size)
  /\ train = IdleTrain

\* the training loop about to start on a dataset of some size, with a batch
\* size and a number of episodes (128 and 100 in the notebook, bounded here)
InitTrain ==
  /\ n_heads \in 1..MaxHeads
  /\ d_model = DModel
  /\ pt_vocab_size = MinVocab
  /\ en_vocab_size \in MinVocab..MaxVocab
  /\ pe_d_model = 1
  /\ pe_pc = "idle"
  /\ pe_inputs = << >>
  /\ omega = << >>
  /\ angles = << >>
  /\ pos_mask = << >>
  /\ pe_out = << >>
  /\ mk_pc = "start"
  /\ mk_seq = << >>
  /\ mk_sq = << >>
  /\ padding_mask = << >>
  /\ lookahead_mask = << >>
  /\ mask = << >>
  /\ mha = PipelineBlocks(n_heads, d_model)
  /\ pc = "idle"
  /\ port = << >>
  /\ output_prev = << >>
  /\ batch = 1
  /\ enc = encoder_build(d_model, n_heads, pt_vocab_size, en_vocab_size)
  /\ dec = decoder_build(d_model, n_heads, pt_vocab_size, en_vocab_size)
  /\ train \in {[IdleTrain EXCEPT !.n_examples = n, !.batch_size = bs,
                                   !.n_episodes = e, !.pc = "next_batch"] :
                  n \in 1..MaxExamples, bs \in 1..MaxBatchSize, e \in 1..MaxEpisodes}

NextPos == PECall \/ PEMask \/ PEAdd \/ PEReturn

NextMask == MkOuterprod \/ MkPadding \/ MkLookahead \/ MkMaximum

NextAttn ==
  \/ AttnInvoke
  \/ MhaHead(Standalone)
  \/ MhaKeyError(Standalone)
  \/ MhaCombine(Standalone)

Next ==
  \/ ModelCall
  \/ EncoderCall
  \/ MhaHead(EncBlock)
  \/ MhaCombine(EncBlock)
  \/ EncoderReturn
  \/ DecoderCall
  \/ MhaHead(DecBlock1)
  \/ MhaCombine(DecBlock1)
  \/ DecoderCross
  \/ MhaHead(DecBlock2)
  \/ MhaCombine(DecBlock2)
  \/ DecoderReturn

NextDec ==
  \/ DecoderInvoke
  \/ MhaHead(DecBlock1)
  \/ MhaCombine(DecBlock1)
  \/ DecoderCross
  \/ MhaHead(DecBlock2)
  \/ MhaCombine(DecBlock2)
  \/ DecoderReturn

NextTrain ==
  \/ TrainNextBatch
  \/ TrainEncoder
  \/ TrainDecoder
  \/ TrainLoss
  \/ TrainGradient
  \/ TrainApply
  \/ TrainEndOfEpisode

SpecPos == InitPos /\ [][NextPos]_vars

SpecMask == InitMask /\ [][NextMask]_vars

SpecAttn == InitAttn /\ [][NextAttn]_vars

SpecDec == InitDec /\ [][NextDec]_vars

SpecTrain == InitTrain /\ [][NextTrain]_vars

\* a forward pass of the model of the notebook
Spec == Init /\ [][Next]_vars

\* ================================================================ claims
\* the entries of a matrix
Entries(m) == {<<q, k>> \in (DOMAIN m) \X (0..(Cols(m) - 1)) : TRUE}

\* C1: the padding mask of a token sequence is a square {0,1} matrix whose
\* entry (q,k) is 1 exactly when the key token seq[k] is the pad index, in
\* every query row q
C1_PaddingMaskMarksPadKeys ==
  mk_pc \in {"padded", "lookahead", "done"} =>
    /\ DOMAIN padding_mask = DOMAIN mk_seq
    /\ \A q \in DOMAIN mk_seq :
         /\ DOMAIN padding_mask[q] = DOMAIN mk_seq
         /\ \A k \in DOMAIN mk_seq :
              padding_mask[q][k] = (IF mk_seq[k] = PadIndex THEN 1 ELSE 0)

\* C7: the lookahead mask of a sequence of length L is the L x L {0,1}
\* matrix with a 1 exactly where k > q, so it has L*(L-1)/2 ones, whatever
\* the tokens are
C7_LookaheadStrictlyUpper ==
  mk_pc \in {"lookahead", "done"} =>
    LET L == Rows(mk_seq) IN
    /\ DOMAIN lookahead_mask = 0..(L - 1)
    /\ \A q \in 0..(L - 1) :
         /\ DOMAIN lookahead_mask[q] = 0..(L - 1)
         /\ \A k \in 0..(L - 1) :
              lookahead_mask[q][k] = (IF k > q THEN 1 ELSE 0)
    /\ 2 * Cardinality({e \in Entries(lookahead_mask) :
                          lookahead_mask[e[1]][e[2]] = 1}) = L * (L - 1)

\* C7 happens: a lookahead mask of a sequence of three tokens with a pad in
\* front, with its three ones
C7_Witness ==
  /\ mk_pc = "done"
  /\ Rows(mk_seq) = 3
  /\ mk_seq[0] = PadIndex
  /\ mk_seq[2] # PadIndex
  /\ lookahead_mask[0][1] = 1 /\ lookahead_mask[0][2] = 1
  /\ lookahead_mask[1][2] = 1 /\ lookahead_mask[2][2] = 0

\* C9: the output of the positional encoder has the shape of its input and,
\* at position 0, is the input plus 1 (cos 0) at the even dimensions and
\* plus 0 (sin 0) at the odd ones
C9_PositionZero ==
  pe_pc = "done" =>
    /\ DOMAIN pe_out = DOMAIN pe_inputs
    /\ \A p \in DOMAIN pe_inputs : DOMAIN pe_out[p] = DOMAIN pe_inputs[p]
    /\ \A i \in 0..(pe_d_model - 1) :
         pe_out[0][i] = pe_inputs[0][i] + (IF i % 2 = 0 THEN Milli ELSE 0)

\* C9 happens: a call on three dimensions and two positions or more
C9_Witness ==
  /\ pe_pc = "done"
  /\ pe_d_model = 3
  /\ Rows(pe_inputs) >= 2
  /\ pe_inputs[0][1] = Milli
  /\ pe_out[0][0] = pe_inputs[0][0] + Milli
  /\ pe_out[0][1] = Milli
  /\ pe_out[0][2] = pe_inputs[0][2] + Milli

\* exact arithmetic on the numbers m * 10000^(-en/ed)
num_int(a) == [m |-> a, en |-> 0, ed |-> 1]
num_times(p, x) == [x EXCEPT !.m = p * x.m]
RECURSIVE pow10(_)
pow10(e) == IF e = 0 THEN 1 ELSE 10 * pow10(e - 1)
\* a = b, for a.m/b.m = 10^(4t/D) with t/D = a.en/a.ed - b.en/b.ed: a power
\* of 10 with a fractional exponent is irrational
num_eq(a, b) ==
  IF a.m = 0 \/ b.m = 0 THEN a.m = b.m
  ELSE LET t == a.en * b.ed - b.en * a.ed
           D == a.ed * b.ed
       IN IF t = 0 THEN a.m = b.m
          ELSE IF t > 0
            THEN (4 * t) % D = 0 /\ a.m = b.m * pow10((4 * t) \div D)
            ELSE (4 * (0 - t)) % D = 0 /\ a.m * pow10((4 * (0 - t)) \div D) = b.m

\* C10: the mask value at (p,i) is cos(angle(p,i)) for even i and
\* sin(angle(p,i)) for odd i, the angle being p * omega(i) with
\* omega(i) = 1 / 10000^(2*floor(i/2)/d_model)
C10_AngleIsPositionTimesOmega ==
  pe_pc \in {"add", "done"} =>
    \A p \in DOMAIN pe_inputs : \A i \in 0..(pe_d_model - 1) :
      /\ omega[i] = [m |-> 1, en |-> 2 * (i \div 2), ed |-> pe_d_model]
      /\ num_eq(num_int(angles[p][i]), num_times(p, omega[i]))
      /\ pos_mask[p][i] =
           (IF i % 2 = 0 THEN tf_cos(angles[p][i]) ELSE tf_sin(angles[p][i]))

\* C5: for every head count and every query and key/value length, the call
\* of an attention block returns a tensor of shape (batch, length_q,
\* d_model), the concatenation of its heads having width n_heads * d_model
C5_CallReturnsQueryShape ==
  LET blk == mha[Standalone] IN
  /\ blk.status # "KeyError"
  /\ blk.status = "returned" =>
       /\ sum_widths(blk.all_values) = blk.n_heads * blk.d_model
       /\ blk.output = <<blk.query_inp[1], blk.query_inp[2], blk.d_model>>

\* C8: build creates the projections of exactly the heads 0..h-1, h being
\* the constructor's value, and call uses exactly those heads, each of
\* which has its projections, whatever the global n_heads is
C8_HeadsOfTheConstructor ==
  LET blk == mha[Standalone] IN
  blk.built =>
    /\ DOMAIN blk.kernels = 0..(blk.n_heads - 1)
    /\ \A head \in DOMAIN blk.kernels : blk.kernels[head] = kernel_types
    /\ blk.status # "KeyError"
    /\ blk.status = "returned" => Len(blk.softmax_scores) = blk.n_heads

\* C2: in the Decoder's masked self-attention no query position q puts a
\* positive weight on a later key position k > q, in any head and for any
\* target history
C2_NoWeightOnLaterPositions ==
  \A h \in DOMAIN mha[DecBlock1].softmax_scores :
    LET w == mha[DecBlock1].softmax_scores[h] IN
    \A q \in DOMAIN w : \A k \in DOMAIN w[q] : k > q => w[q][k] = 0

\* a sequence of real tokens followed by pad tokens, with one of each or more
TrailingPads(seq) ==
  \E n \in 1..(Rows(seq) - 1) :
    \A p \in DOMAIN seq : (p < n) <=> (seq[p] # PadIndex)

\* C3: for a source sequence with trailing pads, every attention pass over
\* the source (the Encoder's self-attention and the Decoder's
\* cross-attention) gives the padded source positions weight zero, in every
\* head and every query row
C3_NoWeightOnPaddedSource ==
  TrailingPads(port) =>
    \A b \in {EncBlock, DecBlock2} :
      \A h \in DOMAIN mha[b].softmax_scores :
        LET w == mha[b].softmax_scores[h] IN
        \A q \in DOMAIN w : \A k \in DOMAIN w[q] :
          port[k] = PadIndex => w[q][k] = 0

\* C4: once the Decoder has embedded a target history, its table had a row
\* for every token of the target vocabulary 0 <= t < en_vocab_size, and the
\* lookup found every token of the history
C4_TargetTokensIndexTheTable ==
  dec.lookup # "none" =>
    /\ \A t \in 0..(en_vocab_size - 1) : t < dec.table_rows
    /\ dec.lookup = "ok"

\* C6: the Decoder's output has the shape (batch, length_tgt,
\* en_vocab_size), as call produces it and as compute_output_shape declares
\* it
C6_DecoderOutputShape ==
  pc = "done" =>
    /\ dec.probs = <<batch, Rows(output_prev), en_vocab_size>>
    /\ dec.declared = <<batch, Rows(output_prev), en_vocab_size>>

\* C11: in every head that has run, of the three projections build created
\* for it only the query and the key projection were applied, and the
\* weights were multiplied with the value source as it was passed in, so the
\* head's output has the value source's width and owes nothing to the
\* head's value projection
C11_ValueSourceUnprojected ==
  \A b \in Blocks :
    LET blk == mha[b] IN
    \A h \in DOMAIN blk.applied :
      /\ blk.kernels[h - 1] = {"query", "key", "value"}
      /\ blk.applied[h] = {"query", "key"}
      /\ blk.operands[h] = <<"value_inp">>
      /\ blk.all_values[h] = <<blk.query_inp[1], blk.query_inp[2], blk.value_inp[3]>>

\* C11 happens: a block of two heads has returned from a call whose value
\* source is longer than its query source
C11_Witness ==
  LET blk == mha[Standalone] IN
  /\ blk.status = "returned"
  /\ Len(blk.applied) = 2
  /\ blk.value_inp[2] > blk.query_inp[2]
  /\ "value" \in blk.kernels[1]
  /\ "value" \notin blk.applied[2]
  /\ blk.operands[2] = <<"value_inp">>

\* C12: in every head that has run, d_k is the size of the last axis of the
\* scores, the length of the key source (the source length in the Decoder's
\* cross-attention), not d_model and not d_model/n_heads where these differ
\* from that length, and the mask penalty was added to the scaled scores
\* as it is, 1e9 per masked entry, without being scaled itself
C12_ScaledByKeyLength ==
  \A b \in Blocks :
    LET blk == mha[b] IN
    \A h \in DOMAIN blk.d_k :
      /\ blk.d_k[h] = blk.key_inp[2]
      /\ b = DecBlock2 => blk.d_k[h] = Rows(port)
      /\ blk.key_inp[2] # blk.d_model => blk.d_k[h] # blk.d_model
      /\ blk.key_inp[2] # blk.d_model \div blk.n_heads =>
           blk.d_k[h] # blk.d_model \div blk.n_heads
      /\ DOMAIN blk.penalties[h] = 0..(blk.query_inp[2] - 1)
      /\ \A q \in DOMAIN blk.penalties[h] :
           /\ DOMAIN blk.penalties[h][q] = 0..(blk.d_k[h] - 1)
           /\ \A k \in DOMAIN blk.penalties[h][q] :
                blk.penalties[h][q][k] =
                  (IF blk.has_mask /\ blk.padding_mask[q][k] = 1
                     THEN 0 - MaskPenalty ELSE 0)

\* C12 happens: a head of the cross-attention has run on a source of two
\* tokens and a target history of three, and a head of the masked
\* self-attention on that history
C12_Witness ==
  /\ Rows(port) = 2
  /\ Rows(output_prev) = 3
  /\ Len(mha[DecBlock2].d_k) >= 1
  /\ mha[DecBlock2].d_k[1] = 2
  /\ mha[DecBlock2].d_k[1] # d_model \div n_heads
  /\ mha[DecBlock1].d_k[1] = 3
  /\ mha[DecBlock1].penalties[1][0][1] = 0 - MaskPenalty

\* the combined mask of a target history: 1 where the key is later than the
\* query or the padding mask of the history is 1
CombinedMaskOf(prev) ==
  LET pm == create_padding_mask(outerprod(prev))
  IN [q \in DOMAIN prev |->
       [k \in DOMAIN prev |-> IF k > q \/ pm[q][k] = 1 THEN 1 ELSE 0]]

\* C13: the Decoder's forward pass goes through its steps in order. Once
\* the self-attention is called, the combined mask of the history and the
\* embedded history exist, the self-attention has query = key = value =
\* embedded history under that mask, and cross-attention and projection
\* have not run; once the cross-attention is called, the self-attention has
\* returned, the query is its output, the key source is the first and the
\* value source the second encoder argument, without a mask, and the
\* projection has not run; at the end the probabilities are the projection
\* of the cross-attention's output
C13_DecoderStepsInOrder ==
  LET self == mha[DecBlock1]
      cross == mha[DecBlock2]
      embedded == <<batch, Rows(output_prev), dec.embedding_dim>>
  IN
  /\ pc \in {"decoder_attention_1", "decoder_attention_2", "done"} =>
       /\ dec.mask = CombinedMaskOf(output_prev)
       /\ dec.lookup \in {"ok", "zeros"}
       /\ dec.output_prev_embedded = embedded
       /\ self.query_inp = embedded
       /\ self.key_inp = embedded
       /\ self.value_inp = embedded
       /\ self.has_mask
       /\ self.padding_mask = dec.mask
  /\ pc = "decoder_attention_1" =>
       /\ self.status \in {"running", "returned"}
       /\ cross.status = "idle"
       /\ dec.attention_1 = << >>
       /\ dec.probs = << >>
  /\ pc \in {"decoder_attention_2", "done"} =>
       /\ self.status = "returned"
       /\ dec.attention_1 = self.output
       /\ cross.query_inp = dec.attention_1
       /\ cross.key_inp = dec.inputs[1]
       /\ cross.value_inp = dec.inputs[2]
       /\ ~cross.has_mask
       /\ \A h \in DOMAIN cross.penalties :
            \A q \in DOMAIN cross.penalties[h] :
              \A k \in DOMAIN cross.penalties[h][q] : cross.penalties[h][q][k] = 0
  /\ pc = "decoder_attention_2" =>
       /\ cross.status \in {"running", "returned"}
       /\ dec.probs = << >>
  /\ pc = "done" =>
       /\ cross.status = "returned"
       /\ dec.attention_2 = cross.output
       /\ dec.probs = <<dec.attention_2[1], dec.attention_2[2], en_vocab_size>>

\* C13 happens: a pass has ended whose two encoder arguments differ in
\* width and whose history holds a pad token
C13_Witness ==
  /\ pc = "done"
  /\ dec.inputs[1][3] # dec.inputs[2][3]
  /\ Rows(output_prev) = 3
  /\ output_prev[2] = PadIndex
  /\ output_prev[0] # PadIndex
  /\ mha[DecBlock2].key_inp = dec.inputs[1]
  /\ mha[DecBlock2].value_inp = dec.inputs[2]
  /\ dec.probs # << >>

\* C14: in every step of the training loop the target history has the
\* batch size and the length of the target batch and the batch size of the
\* source batch, and no step aborts
C14_HistoryMatchesBatch ==
  /\ train.pc \in {"encoder", "decoder", "loss", "gradient", "apply"} =>
       /\ train.prev_transformer_output[1] = train.eng[1]
       /\ train.prev_transformer_output[2] = train.eng[2]
       /\ train.prev_transformer_output[1] = train.port[1]
  /\ train.pc # "aborted"
  /\ train.error = "none"

\* the number of batches an episode over n examples has
batches_of(n, bs) == (n + bs - 1) \div bs

\* C15: in every step of the training loop, the learned parameters change
\* only in the optimizer update, which follows the forward pass, the loss
\* and the gradient of its batch and ends the batch; the update does change
\* them, once; the steps of a forward pass leave them as they are; a
\* forward pass starts only when every forward pass before it has had its
\* update, and between batches there have been as many updates as batches
C15_OnlyTheOptimizerUpdates ==
  [][/\ train'.params # train.params =>
          /\ train.pc = "apply"
          /\ train'.pc = "next_batch"
          /\ train.token_probs # << >>
          /\ train.loss = "computed"
          /\ train.grads = "computed"
     /\ train.pc = "apply" =>
          /\ train'.params # train.params
          /\ train'.updates = train.updates + 1
     /\ train.pc # "apply" => train'.updates = train.updates
     /\ train.pc \in {"encoder", "decoder"} => train'.params = train.params
     /\ train'.pc \in {"encoder", "decoder"} =>
          /\ train'.updates = train'.forwards
          /\ train'.updates = train'.gradients
     /\ train'.pc \in {"next_batch", "finished"} =>
          train'.updates =
            train'.ep * batches_of(train'.n_examples, train'.batch_size)
              + train'.batch_ind
    ]_vars

\* C15 happens: the third forward pass of a run is under way, after the
\* updates of the first two batches
C15_Witness ==
  /\ train.pc = "decoder"
  /\ train.batch_size = 2
  /\ train.forwards = 2
  /\ train.gradients = 2
  /\ train.updates = 2
  /\ train.params = 2

====
